---- MODULE Spec2Model ----
(***************************************************************************)
(* Model of acad-service/main.py: the request handlers health_check,       *)
(* get_mahasiswas and calculate_ips, the startup hook, the scoped          *)
(* connection get_db_connection and the pure helper                        *)
(* convert_grade_to_weight.                                                *)
(*                                                                         *)
(* Representation of Python values                                         *)
(*   str        a tuple of one-character strings, <<"B", "+">> for "B+"    *)
(*              (the nim parameter, whose characters are never inspected,  *)
(*              is a TLA+ string)                                          *)
(*   None       the distinguished tuple  None  (not a tuple of characters) *)
(*   float      grade weights and total_bobot_sks are multiples of 0.25    *)
(*              and are held exactly, in hundredths (2.75 is 275): binary64*)
(*              represents every multiple of 0.25 below 2^51 exactly, so   *)
(*              the float products and sums of the code are exact here.    *)
(*              The quotient  total_bobot_sks / total_sks  is not exact:   *)
(*              it is held as the pair [num, den] standing for the         *)
(*              binary64 nearest to num/(100*den), and round(x, 2) is      *)
(*              computed from the sign of that binary64's error.           *)
(* The handlers are `async def` without any await: each runs to completion *)
(* on the event loop, so requests are served one after the other.          *)
(***************************************************************************)
EXTENDS Integers, Sequences, FiniteSets, TLC

(***************************************************************************)
(* Bounds of the model.                                                    *)
(***************************************************************************)
MaxRows == 2          \* most rows a query of the request model returns
MaxCalcRows == 3      \* most rows in the computation-only specification
MaxSks == 4           \* largest credit-hour value of a course
MaxRequests == 2      \* requests served after startup
MaxGradeLen == 2      \* longest grade string in the grade specification

(***************************************************************************)
(* Program constants.                                                      *)
(***************************************************************************)
MinNimLength == 5     \* Query(..., min_length=5)
Ndigits == 2          \* round(x, 2)
MantissaBits == 53    \* binary64 significand

None == <<"None">>

(***************************************************************************)
(* str.upper() on the characters of the model's alphabet.                  *)
(***************************************************************************)
GradeChars == {"A", "a", "B", "b", "C", "c", "D", "d", "E", "e", "x", "+", "-"}

UpperChar(c) ==
    CASE c = "a" -> "A"
      [] c = "b" -> "B"
      [] c = "c" -> "C"
      [] c = "d" -> "D"
      [] c = "e" -> "E"
      [] c = "x" -> "X"
      [] OTHER -> c

StrUpper(s) == [j \in 1..Len(s) |-> UpperChar(s[j])]

(***************************************************************************)
(* grade_map, values in hundredths.                                        *)
(***************************************************************************)
grade_map ==
    (<<"A">> :> 400) @@ (<<"B", "+">> :> 350) @@ (<<"B">> :> 300) @@
    (<<"B", "-">> :> 275) @@ (<<"C", "+">> :> 250) @@ (<<"C">> :> 200) @@
    (<<"D">> :> 100) @@ (<<"E">> :> 0)

DictGet(d, key, default) == IF key \in DOMAIN d THEN d[key] ELSE default

\* Mutant: the lookup without .upper().
ConvertNoUpper(nilai_huruf) ==
    IF nilai_huruf = None
    THEN [exc |-> "AttributeError", value |-> 0]
    ELSE [exc |-> "none", value |-> DictGet(grade_map, nilai_huruf, 0)]

\* grade_map.get(nilai_huruf.upper(), 0.0); None has no attribute upper.
convert_grade_to_weight(nilai_huruf) ==
    IF nilai_huruf = None
    THEN [exc |-> "AttributeError", value |-> 0]
    ELSE [exc |-> "none", value |-> DictGet(grade_map, StrUpper(nilai_huruf), 0)]

(***************************************************************************)
(* binary64 division and round(x, ndigits).                                *)
(***************************************************************************)
RECURSIVE Gcd(_, _)
Gcd(a, b) == IF b = 0 THEN a ELSE Gcd(b, a % b)

RECURSIVE OddPart(_)
OddPart(n) == IF n % 2 = 0 THEN OddPart(n \div 2) ELSE n

RECURSIVE PowMod(_, _, _)
PowMod(b, e, m) == IF e = 0 THEN 1 % m ELSE (b * PowMod(b, e - 1, m)) % m

RECURSIVE ShiftUp(_, _)
\* least u >= 0 with a * 2^u >= o
ShiftUp(a, o) == IF a >= o THEN 0 ELSE 1 + ShiftUp(2 * a, o)

RECURSIVE ShiftDown(_, _)
\* greatest t >= 0 with o * 2^t <= a   (a >= o)
ShiftDown(a, o) == IF 2 * o > a THEN 0 ELSE 1 + ShiftDown(a, 2 * o)

\* Sign of  binary64(a/b) - a/b  for integers a >= 0, b > 0: the significand
\* is a * 2^s / o rounded to an integer, o the odd part of the reduced
\* denominator and s placing the quotient in [2^52, 2^53).
FloatErrSign(a, b) ==
    IF a = 0 THEN 0
    ELSE LET g == Gcd(a, b)
             n == a \div g
             o == OddPart(b \div g)
             s == IF n >= o THEN (MantissaBits - 1) - ShiftDown(n, o)
                  ELSE (MantissaBits - 1) + ShiftUp(n, o)
             r == ((n % o) * PowMod(2, s, o)) % o
         IN  IF o = 1 THEN 0 ELSE IF 2 * r > o THEN 1 ELSE -1

Scale == 10 ^ Ndigits   \* hundredths per unit

\* Mutant: truncation instead of rounding.
Round2Trunc(num, den) == num \div den

\* round(x, 2) in hundredths, x the binary64 nearest to num/(100*den):
\* correctly rounded from the binary value, ties (possible only when x is
\* exact) to even.
Round2(num, den) ==
    LET fl == num \div den
        rem == num % den
    IN  IF 2 * rem < den THEN fl
        ELSE IF 2 * rem > den THEN fl + 1
        ELSE LET sgn == FloatErrSign(num, Scale * den)
             IN  IF sgn > 0 THEN fl + 1
                 ELSE IF sgn < 0 THEN fl
                 ELSE IF fl % 2 = 0 THEN fl ELSE fl + 1

(***************************************************************************)
(* State.                                                                  *)
(***************************************************************************)
VARIABLES
    started,          \* startup_event has been called
    nreq,             \* requests received so far
    handler,          \* the handler being run
    pc,               \* its position
    nim,              \* calculate_ips: the nim query parameter
    conn,             \* the request's connection: "none", "open", "closed"
    txn,              \* its transaction: "none", "active", "committed",
                      \* "rolledback", "aborted"
    openConns,        \* connections of the process that are open
    calls,            \* store calls made by the current request, per operation
    failed,           \* the store operations that raised in the current request
    rows,             \* cursor.fetchall()
    k,                \* rows consumed by the for loop
    nilai_huruf,      \* local of the loop / argument of convert_grade_to_weight
    bobot_nilai,      \* local of the loop / result of convert_grade_to_weight
    total_bobot_sks,  \* float, in hundredths
    total_sks,        \* int
    ips,              \* float: the binary64 nearest to num/(100*den)
    divided,          \* the division of line 148 was evaluated
    exc,              \* the exception propagating, [type |-> "none"] if none
    retval,           \* the value returned from inside the with block
    response          \* the HTTP response of the request

vars == <<started, nreq, handler, pc, nim, conn, txn, openConns, calls, failed,
          rows, k, nilai_huruf, bobot_nilai, total_bobot_sks, total_sks, ips,
          divided, exc, retval, response>>

StoreOps == {"connect", "execute", "fetchall", "commit", "rollback", "close"}

NoExc == [type |-> "none", status_code |-> 0]
HTTPException(code) == [type |-> "HTTPException", status_code |-> code]
AttributeError == [type |-> "AttributeError", status_code |-> 0]
\* psycopg2.Error: OperationalError, InterfaceError, DatabaseError, ...
StoreError == [type |-> "psycopg2.Error", status_code |-> 0]

NoValue == [kind |-> "none"]
NoResponse == [status_code |-> 0, body |-> NoValue]
Detail == [kind |-> "detail"]

(***************************************************************************)
(* Inputs: query parameters and what the store returns.                    *)
(***************************************************************************)
NimValues == {"123", "1234", "12345", "99999"}

SksValues == 0..MaxSks
CalcSksValues == {0, 2, 3, 4}

ReqGrades == {<<"A">>, <<"b", "+">>, <<"x">>, None}
CalcGrades == {<<"A">>, <<"B", "+">>, <<"b", "-">>, <<"C">>, None}

RECURSIVE SeqsUpTo(_, _)
SeqsUpTo(S, n) ==
    IF n = 0 THEN {<<>>}
    ELSE LET shorter == SeqsUpTo(S, n - 1)
         IN  shorter \cup {Append(q, e) : q \in {r \in shorter : Len(r) = n - 1}, e \in S}

\* Rows of the join for one nim: WHERE m.nim = %s.
KrsRows(n, grades, credits) == [nim : {n}, nilai : grades, sks : credits]

Students == {<<"12345", "Ani", "TI", 2023>>, <<"99999", "Budi", "SI", 2022>>}

(***************************************************************************)
(* The state between requests.                                             *)
(***************************************************************************)
Locals ==
    /\ nim = ""
    /\ rows = <<>>
    /\ k = 0
    /\ nilai_huruf = None
    /\ bobot_nilai = 0
    /\ total_bobot_sks = 0
    /\ total_sks = 0
    /\ ips = [num |-> 0, den |-> 1]
    /\ divided = FALSE
    /\ exc = NoExc
    /\ retval = NoValue
    /\ response = NoResponse

Init ==
    /\ started = FALSE
    /\ nreq = 0
    /\ handler = "none"
    /\ pc = "idle"
    /\ conn = "none"
    /\ txn = "none"
    /\ openConns = 0
    /\ calls = [op \in StoreOps |-> 0]
    /\ failed = {}
    /\ Locals

\* A handler is entered: fresh locals, no connection yet.
Enter(h, p, n) ==
    /\ handler' = h
    /\ pc' = p
    /\ nim' = n
    /\ conn' = "none"
    /\ txn' = "none"
    /\ calls' = [op \in StoreOps |-> 0]
    /\ failed' = {}
    /\ rows' = <<>>
    /\ k' = 0
    /\ nilai_huruf' = None
    /\ bobot_nilai' = 0
    /\ total_bobot_sks' = 0
    /\ total_sks' = 0
    /\ ips' = [num |-> 0, den |-> 1]
    /\ divided' = FALSE
    /\ exc' = NoExc
    /\ retval' = NoValue
    /\ UNCHANGED openConns

Called(op) == calls' = [calls EXCEPT ![op] = @ + 1]

(***************************************************************************)
(* startup_event and the routes.  FastAPI validates the query parameters   *)
(* before it calls the handler: a nim shorter than min_length is answered  *)
(* 422 and calculate_ips is not entered.                                   *)
(***************************************************************************)
Idle == started /\ pc = "done" /\ nreq < MaxRequests

startup_event ==
    /\ ~started
    /\ pc = "idle"
    /\ started' = TRUE
    /\ Enter("startup_event", "connect", "")
    /\ response' = NoResponse
    /\ UNCHANGED nreq

health_check ==
    /\ Idle
    /\ nreq' = nreq + 1
    /\ Enter("health_check", "done", "")
    /\ response' = [status_code |-> 200, body |-> [kind |-> "health"]]
    /\ UNCHANGED started

get_mahasiswas ==
    /\ Idle
    /\ nreq' = nreq + 1
    /\ Enter("get_mahasiswas", "connect", "")
    /\ response' = NoResponse
    /\ UNCHANGED started

\* Mutant: the parameter declared without min_length.
ValidNimAny(n) == TRUE

\* Query(..., min_length=5)
ValidNim(n) == Len(n) >= MinNimLength

calculate_ips ==
    /\ Idle
    /\ nreq' = nreq + 1
    /\ UNCHANGED started
    /\ \E n \in NimValues :
        \/ /\ ~ValidNim(n)
           /\ Enter("calculate_ips", "done", n)
           /\ response' = [status_code |-> 422, body |-> Detail]
        \/ /\ ValidNim(n)
           /\ Enter("calculate_ips", "connect", n)
           /\ response' = NoResponse

(***************************************************************************)
(* get_db_connection: connect, yield, commit / rollback, close.            *)
(***************************************************************************)
Frame == <<started, nreq, handler, nim, response>>
Calc == <<rows, k, nilai_huruf, bobot_nilai, total_bobot_sks, total_sks, ips,
          divided, retval>>

\* conn = psycopg2.connect(**DB_CONFIG), outside the try of the generator.
Connect ==
    /\ pc = "connect"
    /\ Called("connect")
    /\ \/ /\ conn' = "open"
          /\ openConns' = openConns + 1
          /\ pc' = IF handler = "startup_event" THEN "print" ELSE "execute"
          /\ UNCHANGED <<exc, failed>>
       \/ /\ exc' = StoreError
          /\ failed' = failed \cup {"connect"}
          /\ pc' = "handler_exit"
          /\ UNCHANGED <<conn, openConns>>
    /\ UNCHANGED <<Frame, Calc, txn>>

\* Mutant: commit whatever happened in the block.
AfterBlockAlwaysCommit(e) == "cm_commit"

\* Where the generator resumes when the with block is left: after the yield
\* (commit) on a normal exit or a return, in the except clause on an exception.
AfterBlock(e) == IF e.type = "none" THEN "cm_commit" ELSE "cm_except"

\* conn.commit(): sends COMMIT when a transaction is open.
Commit ==
    /\ pc = "cm_commit"
    /\ Called("commit")
    /\ \/ /\ txn' = IF txn = "active" THEN "committed" ELSE txn
          /\ pc' = "cm_finally"
          /\ UNCHANGED <<exc, failed>>
       \/ /\ txn = "active"
          /\ exc' = StoreError
          /\ failed' = failed \cup {"commit"}
          /\ pc' = "cm_except"
          /\ UNCHANGED txn
    /\ UNCHANGED <<Frame, Calc, conn, openConns>>

\* except Exception as e: conn.rollback(); raise e
Rollback ==
    /\ pc = "cm_except"
    /\ Called("rollback")
    /\ \/ /\ txn' = IF txn = "active" THEN "rolledback" ELSE txn
          /\ UNCHANGED <<exc, failed>>
       \/ /\ txn = "active"
          /\ exc' = StoreError
          /\ failed' = failed \cup {"rollback"}
          /\ UNCHANGED txn
    /\ pc' = "cm_finally"
    /\ UNCHANGED <<Frame, Calc, conn, openConns>>

\* Mutant: the connection is closed only when nothing was raised.
CloseOnSuccessOnly(e) == e.type = "none"

\* finally: conn.close()
Closes(e) == TRUE

Close ==
    /\ pc = "cm_finally"
    /\ IF Closes(exc)
       THEN /\ Called("close")
            /\ conn' = "closed"
            /\ openConns' = openConns - 1
            \* the server discards a transaction left open
            /\ txn' = IF txn = "active" THEN "aborted" ELSE txn
       ELSE UNCHANGED <<calls, conn, openConns, txn>>
    /\ pc' = "handler_exit"
    /\ UNCHANGED <<Frame, Calc, exc, failed>>

(***************************************************************************)
(* The with blocks.                                                        *)
(***************************************************************************)
\* startup_event: print("Acad Service: Connected to PostgreSQL")
PrintConnected ==
    /\ pc = "print"
    /\ pc' = AfterBlock(exc)
    /\ UNCHANGED <<Frame, Calc, conn, txn, openConns, calls, failed, exc>>

\* cursor.execute(query [, (nim,)]): the first statement opens the transaction.
Execute ==
    /\ pc = "execute"
    /\ Called("execute")
    /\ \/ /\ txn' = "active"
          /\ pc' = "fetchall"
          /\ UNCHANGED <<exc, failed>>
       \/ /\ txn' \in {"none", "active"}
          /\ exc' = StoreError
          /\ failed' = failed \cup {"execute"}
          /\ pc' = AfterBlock(exc')
    /\ UNCHANGED <<Frame, Calc, conn, openConns>>

\* What SELECT * FROM mahasiswa / the join on m.nim = nim can return.
QueryResults ==
    IF handler = "get_mahasiswas"
    THEN SeqsUpTo(Students, MaxRows)
    ELSE SeqsUpTo(KrsRows(nim, ReqGrades, SksValues), MaxRows)

\* rows = cursor.fetchall()
FetchAll ==
    /\ pc = "fetchall"
    /\ Called("fetchall")
    /\ \/ /\ rows' \in QueryResults
          /\ pc' = IF handler = "get_mahasiswas" THEN "build_list" ELSE "check_rows"
          /\ UNCHANGED <<exc, failed>>
       \/ /\ exc' = StoreError
          /\ failed' = failed \cup {"fetchall"}
          /\ pc' = AfterBlock(exc')
          /\ UNCHANGED rows
    /\ UNCHANGED <<Frame, conn, txn, openConns, k, nilai_huruf, bobot_nilai,
                   total_bobot_sks, total_sks, ips, divided, retval>>

\* get_mahasiswas: return [{"nim": row[0], ...} for row in rows]
BuildList ==
    /\ pc = "build_list"
    /\ retval' = [kind |-> "list",
                  items |-> [j \in 1..Len(rows) |->
                               [nim |-> rows[j][1], nama |-> rows[j][2],
                                jurusan |-> rows[j][3], angkatan |-> rows[j][4]]]]
    /\ pc' = AfterBlock(exc)
    /\ UNCHANGED <<Frame, conn, txn, openConns, calls, failed, exc, rows, k,
                   nilai_huruf, bobot_nilai, total_bobot_sks, total_sks, ips,
                   divided>>

\* if not rows:
NotFound(r) == Len(r) = 0

\* if not rows: raise HTTPException(404); total_bobot_sks = 0.0; total_sks = 0
CheckRows ==
    /\ pc = "check_rows"
    /\ \/ /\ NotFound(rows)
          /\ exc' = HTTPException(404)
          /\ pc' = AfterBlock(exc')
       \/ /\ ~NotFound(rows)
          /\ pc' = "loop"
          /\ UNCHANGED exc
    /\ total_bobot_sks' = 0
    /\ total_sks' = 0
    /\ UNCHANGED <<Frame, conn, txn, openConns, calls, failed, rows, k,
                   nilai_huruf, bobot_nilai, ips, divided, retval>>

\* Mutant: = instead of +=.
AccumulateOverwrite(total, bobot, sks) == bobot * sks

\* bobot_sks_matkul = bobot_nilai * sks_matkul; total_bobot_sks += bobot_sks_matkul
Accumulate(total, bobot, sks) == total + bobot * sks

\* One iteration of  for row in rows.
LoopStep ==
    /\ pc = "loop"
    /\ k < Len(rows)
    /\ LET row == rows[k + 1]
           w == convert_grade_to_weight(row.nilai)
       IN  /\ nilai_huruf' = row.nilai
           /\ \/ /\ w.exc = "AttributeError"
                 /\ exc' = AttributeError
                 /\ pc' = AfterBlock(exc')
                 /\ UNCHANGED <<k, bobot_nilai, total_bobot_sks, total_sks>>
              \/ /\ w.exc = "none"
                 /\ bobot_nilai' = w.value
                 /\ total_bobot_sks' = Accumulate(total_bobot_sks, w.value, row.sks)
                 /\ total_sks' = total_sks + row.sks
                 /\ k' = k + 1
                 /\ UNCHANGED <<exc, pc>>
    /\ UNCHANGED <<Frame, conn, txn, openConns, calls, failed, rows, ips,
                   divided, retval>>

\* if total_sks == 0: ips = 0.0  else: ips = total_bobot_sks / total_sks
Divide(tb, ts) ==
    IF ts = 0 THEN [ips |-> [num |-> 0, den |-> 1], divided |-> FALSE]
    ELSE [ips |-> [num |-> tb, den |-> ts], divided |-> TRUE]

ComputeIps ==
    /\ pc = "loop"
    /\ k = Len(rows)
    /\ LET d == Divide(total_bobot_sks, total_sks)
       IN  /\ ips' = d.ips
           /\ divided' = d.divided
    /\ pc' = "return"
    /\ UNCHANGED <<Frame, conn, txn, openConns, calls, failed, exc, rows, k,
                   nilai_huruf, bobot_nilai, total_bobot_sks, total_sks, retval>>

\* The dictionary returned by calculate_ips (nama and jurusan, which the
\* handler copies from rows[0] like nim, are left out).
IpsResult(r, ts, tb, x) ==
    [kind |-> "ips",
     mahasiswa |-> [nim |-> r[1].nim],
     total_sks_diambil |-> ts,
     total_bobot_sks |-> Round2(tb, 1),
     ips |-> Round2(x.num, x.den)]

ReturnResult ==
    /\ pc = "return"
    /\ retval' = IpsResult(rows, total_sks, total_bobot_sks, ips)
    /\ pc' = AfterBlock(exc)
    /\ UNCHANGED <<Frame, conn, txn, openConns, calls, failed, exc, rows, k,
                   nilai_huruf, bobot_nilai, total_bobot_sks, total_sks, ips,
                   divided>>

\* Lines 126-162 as a function of the rows: the for loop, the division and
\* the returned dictionary, or the exception that leaves the block.
RECURSIVE LoopFrom(_, _, _, _)
LoopFrom(r, j, tb, ts) ==
    IF j > Len(r) THEN [exc |-> "none", tb |-> tb, ts |-> ts]
    ELSE LET w == convert_grade_to_weight(r[j].nilai)
         IN  IF w.exc # "none" THEN [exc |-> w.exc, tb |-> tb, ts |-> ts]
             ELSE LoopFrom(r, j + 1, Accumulate(tb, w.value, r[j].sks), ts + r[j].sks)

BlockOutcome(r) ==
    LET l == LoopFrom(r, 1, 0, 0)
        d == Divide(l.tb, l.ts)
    IN  IF l.exc # "none" THEN [exc |-> l.exc, result |-> NoValue]
        ELSE [exc |-> "none", result |-> IpsResult(r, l.ts, l.tb, d.ips)]

(***************************************************************************)
(* The handlers' except clauses and the response.                          *)
(***************************************************************************)
\* Mutant: calculate_ips without its  except HTTPException: raise.
StatusOfGeneric(h, e) == IF e.type = "none" THEN 200 ELSE 500

\* Mutant: a generic except clause that answers normally.
StatusOfSwallow(h, e) == IF e.type = "HTTPException" THEN e.status_code ELSE 200

\* get_mahasiswas: except Exception -> HTTPException(500).
\* calculate_ips: except HTTPException: raise; except Exception -> 500.
\* FastAPI answers an HTTPException with its status_code.
StatusOf(h, e) ==
    IF e.type = "none" THEN 200
    ELSE IF h = "calculate_ips" /\ e.type = "HTTPException" THEN e.status_code
    ELSE 500

HandlerExit ==
    /\ pc = "handler_exit"
    /\ pc' = "done"
    /\ response' =
         IF handler = "startup_event" THEN NoResponse  \* the error is printed
         ELSE [status_code |-> StatusOf(handler, exc),
               body |-> IF exc.type = "none" THEN retval ELSE Detail]
    /\ UNCHANGED <<started, nreq, handler, nim, Calc, conn, txn, openConns,
                   calls, failed, exc>>

Next ==
    \/ startup_event
    \/ health_check
    \/ get_mahasiswas
    \/ calculate_ips
    \/ Connect
    \/ PrintConnected
    \/ Execute
    \/ FetchAll
    \/ BuildList
    \/ CheckRows
    \/ LoopStep
    \/ ComputeIps
    \/ ReturnResult
    \/ Commit
    \/ Rollback
    \/ Close
    \/ HandlerExit

Spec == Init /\ [][Next]_vars

(***************************************************************************)
(* The computation of calculate_ips on its own: the state right after      *)
(* fetchall() returned, for a wider set of rows, and the steps of the      *)
(* with block up to the point where it is left.                            *)
(***************************************************************************)
InitCalc ==
    /\ started = TRUE
    /\ nreq = 1
    /\ handler = "calculate_ips"
    /\ pc = "check_rows"
    /\ nim = "12345"
    /\ conn = "open"
    /\ txn = "active"
    /\ openConns = 1
    /\ calls = [op \in StoreOps |->
                  IF op \in {"connect", "execute", "fetchall"} THEN 1 ELSE 0]
    /\ failed = {}
    /\ rows \in SeqsUpTo(KrsRows("12345", CalcGrades, CalcSksValues), MaxCalcRows)
    /\ k = 0
    /\ nilai_huruf = None
    /\ bobot_nilai = 0
    /\ total_bobot_sks = 0
    /\ total_sks = 0
    /\ ips = [num |-> 0, den |-> 1]
    /\ divided = FALSE
    /\ exc = NoExc
    /\ retval = NoValue
    /\ response = NoResponse

NextCalc ==
    \/ CheckRows
    \/ LoopStep
    \/ ComputeIps
    \/ ReturnResult

SpecCalc == InitCalc /\ [][NextCalc]_vars

(***************************************************************************)
(* convert_grade_to_weight on its own, called on every string over the     *)
(* alphabet up to MaxGradeLen characters and on None.                      *)
(***************************************************************************)
GradeStrings == SeqsUpTo(GradeChars, MaxGradeLen)

InitGrade ==
    /\ started = TRUE
    /\ nreq = 0
    /\ handler = "convert_grade_to_weight"
    /\ pc = "call"
    /\ conn = "none"
    /\ txn = "none"
    /\ openConns = 0
    /\ calls = [op \in StoreOps |-> 0]
    /\ failed = {}
    /\ nim = ""
    /\ rows = <<>>
    /\ k = 0
    /\ nilai_huruf \in GradeStrings \cup {None}
    /\ bobot_nilai = 0
    /\ total_bobot_sks = 0
    /\ total_sks = 0
    /\ ips = [num |-> 0, den |-> 1]
    /\ divided = FALSE
    /\ exc = NoExc
    /\ retval = NoValue
    /\ response = NoResponse

ConvertGrade ==
    /\ pc = "call"
    /\ LET w == convert_grade_to_weight(nilai_huruf)
       IN  /\ bobot_nilai' = w.value
           /\ exc' = IF w.exc = "none" THEN NoExc ELSE AttributeError
    /\ pc' = "returned"
    /\ UNCHANGED <<Frame, conn, txn, openConns, calls, failed, rows, k,
                   nilai_huruf, total_bobot_sks, total_sks, ips, divided,
                   retval>>

NextGrade == ConvertGrade

SpecGrade == InitGrade /\ [][NextGrade]_vars

(***************************************************************************)
(* Vocabulary of the properties.                                           *)
(***************************************************************************)
\* The weight the grade table gives a string, letter case ignored, written
\* out without upper(): 0 for a string that is no grade of the table.
SameLetter(c, d) ==
    \/ c = d
    \/ {c, d} \in {{"A", "a"}, {"B", "b"}, {"C", "c"}, {"D", "d"}, {"E", "e"}}

SameModuloCase(g, h) ==
    /\ Len(g) = Len(h)
    /\ \A j \in 1..Len(g) : SameLetter(g[j], h[j])

TableWeight(g) ==
    CASE SameModuloCase(g, <<"A">>) -> 400
      [] SameModuloCase(g, <<"B", "+">>) -> 350
      [] SameModuloCase(g, <<"B">>) -> 300
      [] SameModuloCase(g, <<"B", "-">>) -> 275
      [] SameModuloCase(g, <<"C", "+">>) -> 250
      [] SameModuloCase(g, <<"C">>) -> 200
      [] SameModuloCase(g, <<"D">>) -> 100
      [] SameModuloCase(g, <<"E">>) -> 0
      [] OTHER -> 0

RECURSIVE SumSks(_)
SumSks(r) == IF r = <<>> THEN 0 ELSE r[1].sks + SumSks(Tail(r))

RECURSIVE SumWeighted(_)
SumWeighted(r) ==
    IF r = <<>> THEN 0 ELSE TableWeight(r[1].nilai) * r[1].sks + SumWeighted(Tail(r))

HasMissingGrade(r) == \E j \in 1..Len(r) : r[j].nilai = None

Abs(x) == IF x < 0 THEN -x ELSE x

\* calculate_ips got its rows: fetchall() returned.
Fetched ==
    /\ handler = "calculate_ips"
    /\ calls["fetchall"] = 1
    /\ "fetchall" \notin failed

Done(h) == handler = h /\ pc = "done"

Success == response.status_code = 200

\* The with block was left normally (by return, or at its end in startup_event).
BlockFinished == handler = "startup_event" \/ retval.kind # "none"

\* A connection was acquired by the current request.
Acquired == calls["connect"] = 1 /\ "connect" \notin failed

(***************************************************************************)
(* C1.  As stated: whenever the query of calculate_ips returned zero rows, *)
(* the request ends with the 404 response.                                 *)
(***************************************************************************)
C1_AsStated ==
    (Done("calculate_ips") /\ Fetched /\ Len(rows) = 0)
        => response.status_code = 404

\* C1, amended: with zero rows the block raises HTTPException(404) and no
\* success response is produced; the request ends 404 when the conn.rollback()
\* of get_db_connection's except clause succeeds, and 500 when that rollback
\* itself raises (its error replaces the 404).
C1_NotFoundUnlessRollbackRaises ==
    /\ (Fetched /\ Len(rows) = 0 /\ pc = "cm_except") => exc = HTTPException(404)
    /\ (Done("calculate_ips") /\ Fetched /\ Len(rows) = 0) =>
          /\ ~Success
          /\ retval = NoValue
          /\ response.status_code = IF "rollback" \in failed THEN 500 ELSE 404

C1_Witness ==
    /\ Done("calculate_ips") /\ Fetched /\ Len(rows) = 0
    /\ calls["rollback"] = 1 /\ "rollback" \notin failed
    /\ response.status_code = 404

(***************************************************************************)
(* C2.  As stated: when the store works and some row of a non-empty result *)
(* has no grade (None), calculate_ips answers successfully, the row        *)
(* counting with weight 0.0.                                               *)
(***************************************************************************)
C2_AsStated ==
    (Done("calculate_ips") /\ Fetched /\ Len(rows) > 0 /\ HasMissingGrade(rows)
       /\ failed = {})
        => /\ Success
           /\ response.body.total_bobot_sks = SumWeighted(rows)

(***************************************************************************)
(* C3.  As stated: once a request that acquired a connection has finished, *)
(* the connection is closed, the transaction is committed if the block     *)
(* finished without an exception and not committed if it raised.           *)
(***************************************************************************)
C3_AsStated ==
    (pc = "done" /\ Acquired) =>
        /\ conn = "closed" /\ openConns = 0
        /\ BlockFinished => txn = IF handler = "startup_event" THEN "none" ELSE "committed"
        /\ ~BlockFinished => txn # "committed"

\* C3, amended: conn.commit() is called exactly when the block finished
\* without an exception and the transaction is committed unless that call
\* raises, in which case conn.rollback() is called; when the block raised,
\* rollback is called and commit is not; in every case conn.close() is called
\* before the request finishes and no connection stays open.
C3_ScopedRelease ==
    /\ openConns = (IF conn = "open" THEN 1 ELSE 0)
    /\ pc = "done" => openConns = 0
    /\ (pc \in {"handler_exit", "done"} /\ Acquired) =>
          /\ conn = "closed" /\ calls["close"] = 1
          /\ BlockFinished =>
                /\ calls["commit"] = 1
                /\ "commit" \notin failed =>
                      /\ txn = IF handler = "startup_event" THEN "none" ELSE "committed"
                      /\ calls["rollback"] = 0
                /\ "commit" \in failed =>
                      /\ calls["rollback"] = 1
                      /\ txn \in {"rolledback", "aborted"}
          /\ ~BlockFinished =>
                /\ calls["commit"] = 0
                /\ calls["rollback"] = 1
                /\ txn # "committed"

C3_Witness ==
    /\ pc = "done" /\ Acquired /\ nreq = MaxRequests
    /\ BlockFinished /\ "commit" \in failed
    /\ conn = "closed" /\ txn = "rolledback"

(***************************************************************************)
(* C4.  A request of /api/acad/ips with a nim shorter than 5 characters is *)
(* answered with a client error and makes no store call: no connection is  *)
(* opened and no query is executed.                                        *)
(***************************************************************************)
C4_ShortNimRejected ==
    (handler = "calculate_ips" /\ Len(nim) < 5) =>
        /\ pc = "done"
        /\ response.status_code \in 400..499
        /\ \A op \in StoreOps : calls[op] = 0
        /\ conn = "none" /\ txn = "none"

C4_Witness ==
    /\ handler = "calculate_ips" /\ nim = "1234"
    /\ response.status_code = 422 /\ calls["connect"] = 0

(***************************************************************************)
(* C5.  When the block of calculate_ips is left for a non-empty list of    *)
(* rows, every permutation of the rows gives the same outcome: the same    *)
(* total_sks_diambil, total_bobot_sks and ips, or the same exception.      *)
(***************************************************************************)
PermutationsOf(r) ==
    {[j \in 1..Len(r) |-> r[f[j]]] : f \in Permutations(1..Len(r))}

C5_OrderIndependent ==
    (pc \in {"cm_commit", "cm_except"} /\ Len(rows) > 0) =>
        \A q \in PermutationsOf(rows) :
            LET o == BlockOutcome(q)
            IN  IF retval.kind = "ips"
                THEN /\ o.exc = "none"
                     /\ o.result.total_sks_diambil = retval.total_sks_diambil
                     /\ o.result.total_bobot_sks = retval.total_bobot_sks
                     /\ o.result.ips = retval.ips
                ELSE o.exc = exc.type

\* (b-,3), (C,3), (A,4): 30.25 / 10, whose binary64 lies below 3.025.
C5_Witness ==
    /\ pc = "cm_commit" /\ Len(rows) = 3
    /\ rows[1].nilai = <<"b", "-">> /\ rows[1].sks = 3
    /\ rows[2].nilai = <<"C">> /\ rows[2].sks = 3
    /\ rows[3].nilai = <<"A">> /\ rows[3].sks = 4
    /\ retval.kind = "ips" /\ retval.total_bobot_sks = 3025 /\ retval.ips = 302

(***************************************************************************)
(* C6.  The running totals are the exact sums over the rows consumed, the  *)
(* quotient is taken of the exact sums, and the returned values are those  *)
(* sums and a hundredth nearest to their quotient: rows (A,3),(B+,4),(C,2) *)
(* give 30.00, 9 and 3.33.                                                 *)
(***************************************************************************)
ExampleRows(r) ==
    /\ Len(r) = 3
    /\ r[1].nilai = <<"A">> /\ r[1].sks = 3
    /\ r[2].nilai = <<"B", "+">> /\ r[2].sks = 4
    /\ r[3].nilai = <<"C">> /\ r[3].sks = 2

C6_RoundedOnceAtOutput ==
    /\ pc \in {"loop", "return"} =>
          /\ total_bobot_sks = SumWeighted(SubSeq(rows, 1, k))
          /\ total_sks = SumSks(SubSeq(rows, 1, k))
    /\ (pc = "return" /\ total_sks > 0) =>
          ips = [num |-> SumWeighted(rows), den |-> SumSks(rows)]
    /\ (pc = "cm_commit" /\ retval.kind = "ips") =>
          LET T == SumWeighted(rows)
              Q == SumSks(rows)
          IN  /\ retval.total_sks_diambil = Q
              /\ retval.total_bobot_sks = T
              /\ Q > 0 => 2 * Abs(retval.ips * Q - T) <= Q
              /\ ExampleRows(rows) =>
                    /\ retval.total_bobot_sks = 3000
                    /\ retval.total_sks_diambil = 9
                    /\ retval.ips = 333

C6_Witness ==
    /\ pc = "cm_commit" /\ ExampleRows(rows)
    /\ retval.kind = "ips" /\ retval.ips = 333

(***************************************************************************)
(* C7.  As stated: when the store works and the credit hours of a          *)
(* non-empty result sum to 0, calculate_ips answers successfully with      *)
(* ips = 0.0 and without dividing.                                         *)
(***************************************************************************)
C7_AsStated ==
    (Done("calculate_ips") /\ Fetched /\ Len(rows) > 0 /\ SumSks(rows) = 0
       /\ failed = {})
        => /\ Success
           /\ response.body.ips = 0
           /\ ~divided

\* C7, what holds of the code: a request whose loop consumed every row (no row
\* has a missing grade) with credit hours summing to 0 has ips = 0.0
\* without a division.
C7_GuardWhenLoopCompletes ==
    (handler = "calculate_ips" /\ Len(rows) > 0 /\ SumSks(rows) = 0
       /\ pc \in {"return", "cm_commit", "cm_finally", "handler_exit", "done"}
       /\ ~HasMissingGrade(rows))
        => /\ ~divided
           /\ ips = [num |-> 0, den |-> 1]
           /\ Success => response.body.ips = 0

(***************************************************************************)
(* C8.  For every grade string g, convert_grade_to_weight(g) raises        *)
(* nothing and returns the table weight of g with letter case ignored,     *)
(* 0.0 when g is no grade of the table; strings that differ only in letter *)
(* case get the same weight.                                               *)
(***************************************************************************)
C8_CaseInsensitiveLookup ==
    (pc = "returned" /\ nilai_huruf # None) =>
        /\ exc = NoExc
        /\ bobot_nilai = TableWeight(nilai_huruf)
        /\ StrUpper(nilai_huruf) \notin DOMAIN grade_map => bobot_nilai = 0
        /\ \A h \in GradeStrings :
              SameModuloCase(h, nilai_huruf) =>
                  convert_grade_to_weight(h).value = bobot_nilai

C8_Witness ==
    /\ pc = "returned" /\ nilai_huruf = <<"b", "-">> /\ bobot_nilai = 275

(***************************************************************************)
(* C9.  In get_mahasiswas and calculate_ips a request in which a store     *)
(* operation raised ends with status 500 and no result in the body, and no *)
(* store operation is called twice in one request.                         *)
(***************************************************************************)
C9_StoreFailureIs500 ==
    /\ \A op \in StoreOps : calls[op] <= 1
    /\ (pc = "done" /\ handler \in {"get_mahasiswas", "calculate_ips"}
          /\ failed # {}) =>
          /\ response.status_code = 500
          /\ response.body = Detail

C9_Witness ==
    /\ Done("get_mahasiswas") /\ failed = {"fetchall"}
    /\ response.status_code = 500

(***************************************************************************)
(* C10.  A success response of get_mahasiswas or calculate_ips exists only *)
(* with the transaction committed and the connection closed; when commit   *)
(* raises, rollback is called, the connection is closed and the computed   *)
(* result gives way to a 500 response; on the not-found path rollback is   *)
(* called and the transaction is never committed.                          *)
(***************************************************************************)
C10_CommitBeforeResponse ==
    /\ (handler \in {"get_mahasiswas", "calculate_ips"} /\ Success) =>
          /\ calls["commit"] = 1 /\ "commit" \notin failed
          /\ txn = "committed"
          /\ calls["close"] = 1 /\ conn = "closed"
          /\ response.body = retval
    /\ (handler \in {"get_mahasiswas", "calculate_ips"} /\ "commit" \in failed
          /\ pc = "done") =>
          /\ calls["rollback"] = 1
          /\ conn = "closed"
          /\ retval # NoValue
          /\ response = [status_code |-> 500, body |-> Detail]
    /\ (Fetched /\ Len(rows) = 0) =>
          /\ calls["commit"] = 0
          /\ txn # "committed"
          /\ pc \in {"cm_finally", "handler_exit", "done"} => calls["rollback"] = 1
          /\ (pc = "done" /\ "rollback" \notin failed) => txn = "rolledback"

C10_Witness ==
    /\ Done("calculate_ips") /\ "commit" \in failed
    /\ retval.kind = "ips" /\ retval.ips > 0
    /\ response.status_code = 500 /\ conn = "closed"

====
